---- MODULE Spec2Model ----
(***************************************************************************)
(* PromoteShadowCommand::run (src/admin/promote_shadow_command.cc).        *)
(* One invocation of "lizardfs-admin promote-shadow <ip> <port>": argument *)
(* check, password, connection, registration (authentication), the         *)
(* become-master exchange and the metadata-server status query.            *)
(* Each blocking sendAndReceive is split in its send and its receive half. *)
(***************************************************************************)
EXTENDS Integers, Sequences, FiniteSets

\* ------------------------------------------------------------------ bounds
MaxArgs == 3        \* options.arguments().size() ranges over 0..MaxArgs
MaxPassword == 2    \* passwords and remote secrets are 1..MaxPassword
MaxStatus == 3      \* status codes on the wire are 0..MaxStatus
MaxRole == 3        \* metadata-server personalities on the wire are 0..MaxRole
MaxMessageId == 2   \* message ids echoed by the remote are 0..MaxMessageId
MaxVersion == 1     \* metadata versions are 0..MaxVersion

\* --------------------------------------------------------------- constants
STATUS_OK == 0
LIZ_METADATASERVER_STATUS_MASTER == 1
ExpectedArguments == 2
StatusRequestId == 1

StatusCodes == 0..MaxStatus
Roles == 0..MaxRole
MessageIds == 0..MaxMessageId
Versions == 0..MaxVersion
Passwords == 1..MaxPassword

NoMessage == [type |-> "none"]

VARIABLES
    pc,                   \* position of run
    argc,                 \* options.arguments().size()
    remoteSecret,         \* the admin password the remote node holds
    password,             \* local `password` (0: not read yet)
    passwordReads,        \* number of get_password() calls
    connection,           \* the ServerConnection: "none", "open", "closed"
    inFlight,             \* requests sent and not yet answered
    sent,                 \* requests sent on the connection, in order
    authResult,           \* what register_master_connection returned
    becomeMasterResponse, \* local `becomeMasterResponse`
    response,             \* local `response`
    status,               \* local `status`
    messageId,            \* local `messageId`
    metadataVersion,      \* local `metadataVersion`
    cerr,                 \* lines written to std::cerr
    exitCode,             \* process exit code (-1 while running or thrown)
    outcome               \* which way run was left

vars == <<pc, argc, remoteSecret, password, passwordReads, connection, inFlight,
          sent, authResult, becomeMasterResponse, response, status, messageId,
          metadataVersion, cerr, exitCode, outcome>>

\* ------------------------------------------------------------ collaborators

\* mfsstrerr: status code -> text; codes outside the table share one text.
MfsErrTab == <<"Operation not permitted", "Not a directory",
               "No such file or directory", "Permission denied">>

mfsstrerr(s) ==
    IF s = STATUS_OK THEN "OK"
    ELSE IF s \in 1..Len(MfsErrTab) THEN MfsErrTab[s]
    ELSE "Unknown MFS error"

\* register_master_connection(connection, password): the results it can hand
\* to run.  OK only for the matching password; a non-OK status is caused
\* either by a rejected credential or by a connection/transport failure.
RegisterOutcomes(pw, secret) ==
    (IF pw = secret
        THEN {[type |-> "auth", cause |-> "accepted", status |-> STATUS_OK]}
        ELSE {[type |-> "auth", cause |-> "rejected", status |-> s] :
                  s \in StatusCodes \ {STATUS_OK}})
    \cup {[type |-> "auth", cause |-> "transport", status |-> s] :
              s \in StatusCodes \ {STATUS_OK}}

\* ~ServerConnection closes the descriptor.
ServerConnectionDtor(c) == IF c = "open" THEN "closed" ELSE c

\* ----------------------------------------------------------------- messages
adminRegisterBuild == [type |-> "REGISTER"]
adminBecomeMasterBuild == [type |-> "BECOME_MASTER"]

metadataserverStatusBuildNoId(id) == [type |-> "METADATASERVER_STATUS", messageId |-> 0]
metadataserverStatusBuild(id) == [type |-> "METADATASERVER_STATUS", messageId |-> id]

BecomeMasterResponses ==
    {[type |-> "MATOCL_ADMIN_BECOME_MASTER", status |-> s] : s \in StatusCodes}

StatusResponses ==
    {[type |-> "MATOCL_METADATASERVER_STATUS", messageId |-> i, status |-> r,
      metadataVersion |-> v] : i \in MessageIds, r \in Roles, v \in Versions}

\* ------------------------------------------------------- conditions of run
WrongUsageAccepting(n) == FALSE
WrongUsageTooFew(n) == n < ExpectedArguments
WrongUsage(n) == n # ExpectedArguments

AuthFailedOnlyEperm(st) == st = 1
AuthFailed(st) == st # STATUS_OK

BecomeMasterFailed(st) == st # STATUS_OK

PromotionNotVerifiedLax(st) == st < LIZ_METADATASERVER_STATUS_MASTER
PromotionNotVerified(st) == st # LIZ_METADATASERVER_STATUS_MASTER

\* line 45: the diagnostic of the become-master step, written before the test.
ReportBecomeMasterSilent(err, st) == err
ReportBecomeMaster(err, st) == Append(err, mfsstrerr(st))

\* exit(1) ends the process without unwinding run's frame: the destructor of
\* the automatic `connection` is not run.
Exit(c) == c

\* leaving run by `return` or by an exception destroys `connection`.
LeaveScopeLeaking(c) == c
LeaveScope(c) == ServerConnectionDtor(c)

\* --------------------------------------------------------------------- Init
Init ==
    /\ pc = "check_args"
    /\ argc \in 0..MaxArgs
    /\ remoteSecret \in Passwords
    /\ password = 0
    /\ passwordReads = 0
    /\ connection = "none"
    /\ inFlight = {}
    /\ sent = <<>>
    /\ authResult = NoMessage
    /\ becomeMasterResponse = NoMessage
    /\ response = NoMessage
    /\ status = 0
    /\ messageId = 0
    /\ metadataVersion = 0
    /\ cerr = <<>>
    /\ exitCode = -1
    /\ outcome = "RUNNING"

\* ------------------------------------------------------------------ actions

\* lines 30-33
CheckArguments ==
    /\ pc = "check_args"
    /\ IF WrongUsage(argc)
          THEN /\ pc' = "thrown"
               /\ outcome' = "WRONG_USAGE"
          ELSE /\ pc' = "get_password"
               /\ UNCHANGED outcome
    /\ UNCHANGED <<argc, remoteSecret, password, passwordReads, connection,
                   inFlight, sent, authResult, becomeMasterResponse, response,
                   status, messageId, metadataVersion, cerr, exitCode>>

\* line 34, with the password asked a second time for confirmation
GetPasswordTwice ==
    /\ pc = "get_password"
    /\ \E pw \in Passwords : password' = pw
    /\ passwordReads' = passwordReads + 2
    /\ pc' = "connect"
    /\ UNCHANGED <<argc, remoteSecret, connection, inFlight, sent, authResult,
                   becomeMasterResponse, response, status, messageId,
                   metadataVersion, cerr, exitCode, outcome>>

\* line 34
GetPassword ==
    /\ pc = "get_password"
    /\ \E pw \in Passwords : password' = pw
    /\ passwordReads' = passwordReads + 1
    /\ pc' = "connect"
    /\ UNCHANGED <<argc, remoteSecret, connection, inFlight, sent, authResult,
                   becomeMasterResponse, response, status, messageId,
                   metadataVersion, cerr, exitCode, outcome>>

\* line 36
Connect ==
    /\ pc = "connect"
    /\ connection' = "open"
    /\ pc' = "register"
    /\ UNCHANGED <<argc, remoteSecret, password, passwordReads, inFlight, sent,
                   authResult, becomeMasterResponse, response, status,
                   messageId, metadataVersion, cerr, exitCode, outcome>>

\* line 37, the request half of register_master_connection
RegisterSend ==
    /\ pc = "register"
    /\ sent' = Append(sent, adminRegisterBuild)
    /\ inFlight' = inFlight \cup {adminRegisterBuild}
    /\ pc' = "register_wait"
    /\ UNCHANGED <<argc, remoteSecret, password, passwordReads, connection,
                   authResult, becomeMasterResponse, response, status,
                   messageId, metadataVersion, cerr, exitCode, outcome>>

\* lines 37-41
RegisterReceive ==
    /\ pc = "register_wait"
    /\ \E r \in RegisterOutcomes(password, remoteSecret) :
          /\ authResult' = r
          /\ status' = r.status
          /\ IF AuthFailed(r.status)
                THEN /\ cerr' = Append(cerr, "Wrong password")
                     /\ exitCode' = 1
                     /\ connection' = Exit(connection)
                     /\ outcome' = "AUTH_FAILED"
                     /\ pc' = "exited"
                ELSE /\ pc' = "become_master"
                     /\ UNCHANGED <<cerr, exitCode, connection, outcome>>
    /\ inFlight' = inFlight \ {adminRegisterBuild}
    /\ UNCHANGED <<argc, remoteSecret, password, passwordReads, sent,
                   becomeMasterResponse, response, messageId, metadataVersion>>

\* lines 43-44, request half
BecomeMasterSend ==
    /\ pc = "become_master"
    /\ sent' = Append(sent, adminBecomeMasterBuild)
    /\ inFlight' = inFlight \cup {adminBecomeMasterBuild}
    /\ pc' = "become_master_wait"
    /\ UNCHANGED <<argc, remoteSecret, password, passwordReads, connection,
                   authResult, becomeMasterResponse, response, status,
                   messageId, metadataVersion, cerr, exitCode, outcome>>

\* lines 43-48: the response is stored and never deserialized; `status` still
\* holds what register_master_connection returned.
BecomeMasterReceive ==
    /\ pc = "become_master_wait"
    /\ \E m \in BecomeMasterResponses : becomeMasterResponse' = m
    /\ inFlight' = inFlight \ {adminBecomeMasterBuild}
    /\ cerr' = ReportBecomeMaster(cerr, status)
    /\ IF BecomeMasterFailed(status)
          THEN /\ exitCode' = 1
               /\ connection' = Exit(connection)
               /\ outcome' = "PROMOTE_FAILED"
               /\ pc' = "exited"
          ELSE /\ pc' = "status_query"
               /\ UNCHANGED <<exitCode, connection, outcome>>
    /\ UNCHANGED <<argc, remoteSecret, password, passwordReads, sent,
                   authResult, response, status, messageId, metadataVersion>>

\* lines 51-52, request half
StatusSend ==
    /\ pc = "status_query"
    /\ sent' = Append(sent, metadataserverStatusBuild(StatusRequestId))
    /\ inFlight' = inFlight \cup {metadataserverStatusBuild(StatusRequestId)}
    /\ pc' = "status_wait"
    /\ UNCHANGED <<argc, remoteSecret, password, passwordReads, connection,
                   authResult, becomeMasterResponse, response, status,
                   messageId, metadataVersion, cerr, exitCode, outcome>>

\* lines 51-60, with the wait repeated while the role is not MASTER
StatusReceivePolling ==
    /\ pc = "status_wait"
    /\ \E m \in StatusResponses :
          /\ response' = m
          /\ messageId' = m.messageId
          /\ status' = m.status
          /\ metadataVersion' = m.metadataVersion
          /\ IF PromotionNotVerified(m.status)
                THEN /\ pc' = "status_wait"
                     /\ UNCHANGED <<cerr, exitCode, connection, outcome, inFlight>>
                ELSE /\ exitCode' = 0
                     /\ connection' = LeaveScope(connection)
                     /\ outcome' = "CONFIRMED"
                     /\ pc' = "returned"
                     /\ inFlight' = {}
                     /\ UNCHANGED cerr
    /\ UNCHANGED <<argc, remoteSecret, password, passwordReads, sent,
                   authResult, becomeMasterResponse>>

\* lines 51-60, with a metadata version of 0 taken for a failed promotion
StatusReceiveVersionChecked ==
    /\ pc = "status_wait"
    /\ \E m \in StatusResponses :
          /\ response' = m
          /\ messageId' = m.messageId
          /\ status' = m.status
          /\ metadataVersion' = m.metadataVersion
          /\ IF PromotionNotVerified(m.status) \/ m.metadataVersion = 0
                THEN /\ cerr' = Append(cerr,
                            "Metadata server promotion failed for unknown reason")
                     /\ exitCode' = 1
                     /\ connection' = Exit(connection)
                     /\ outcome' = "VERIFY_MISMATCH"
                     /\ pc' = "exited"
                ELSE /\ exitCode' = 0
                     /\ connection' = LeaveScope(connection)
                     /\ outcome' = "CONFIRMED"
                     /\ pc' = "returned"
                     /\ UNCHANGED cerr
    /\ inFlight' = {r \in inFlight : r.type # "METADATASERVER_STATUS"}
    /\ UNCHANGED <<argc, remoteSecret, password, passwordReads, sent,
                   authResult, becomeMasterResponse>>

\* lines 51-60
StatusReceive ==
    /\ pc = "status_wait"
    /\ \E m \in StatusResponses :
          /\ response' = m
          /\ messageId' = m.messageId
          /\ status' = m.status
          /\ metadataVersion' = m.metadataVersion
          /\ IF PromotionNotVerified(m.status)
                THEN /\ cerr' = Append(cerr,
                            "Metadata server promotion failed for unknown reason")
                     /\ exitCode' = 1
                     /\ connection' = Exit(connection)
                     /\ outcome' = "VERIFY_MISMATCH"
                     /\ pc' = "exited"
                ELSE /\ exitCode' = 0
                     /\ connection' = LeaveScope(connection)
                     /\ outcome' = "CONFIRMED"
                     /\ pc' = "returned"
                     /\ UNCHANGED cerr
    /\ inFlight' = {r \in inFlight : r.type # "METADATASERVER_STATUS"}
    /\ UNCHANGED <<argc, remoteSecret, password, passwordReads, sent,
                   authResult, becomeMasterResponse>>

\* A connect or an exchange that fails in the transport: an exception leaves run.
TransportFailure ==
    /\ \/ pc = "connect"
       \/ pc \in {"register_wait", "become_master_wait", "status_wait"}
    /\ pc' = "thrown"
    /\ outcome' = "TRANSPORT_FAILED"
    /\ connection' = LeaveScope(connection)
    /\ inFlight' = {}
    /\ UNCHANGED <<argc, remoteSecret, password, passwordReads, sent,
                   authResult, becomeMasterResponse, response, status,
                   messageId, metadataVersion, cerr, exitCode>>

Next ==
    \/ CheckArguments
    \/ GetPassword
    \/ Connect
    \/ RegisterSend
    \/ RegisterReceive
    \/ BecomeMasterSend
    \/ BecomeMasterReceive
    \/ StatusSend
    \/ StatusReceive
    \/ TransportFailure

Spec == Init /\ [][Next]_vars

\* run is one sequential thread that keeps executing, and every exchange it
\* waits for ends with a response or with a transport failure.
FairSpec == Spec /\ WF_vars(Next)

\* ------------------------------------------------------------ vocabulary
Terminal == pc \in {"returned", "exited", "thrown"}
RequestTypes == [i \in 1..Len(sent) |-> sent[i].type]
Sent(t) == \E i \in 1..Len(sent) : sent[i].type = t
AuthReturned == authResult # NoMessage
BecomeMasterAnswered == becomeMasterResponse # NoMessage
StatusAnswered == response # NoMessage
Written(line) == \E i \in 1..Len(cerr) : cerr[i] = line

TypeOK ==
    /\ pc \in {"check_args", "get_password", "connect", "register",
               "register_wait", "become_master", "become_master_wait",
               "status_query", "status_wait", "returned", "exited", "thrown"}
    /\ connection \in {"none", "open", "closed"}
    /\ exitCode \in {-1, 0, 1}
    /\ status \in StatusCodes \cup Roles

\* ------------------------------------------------------------------ claims
WrongPassword == "Wrong password"
PromotionFailed == "Metadata server promotion failed for unknown reason"
AuthOK == AuthReturned /\ authResult.status = STATUS_OK
BecomeMasterOK == BecomeMasterAnswered /\ becomeMasterResponse.status = STATUS_OK
BecomeMasterRejected == BecomeMasterAnswered /\ becomeMasterResponse.status # STATUS_OK
Order == <<"REGISTER", "BECOME_MASTER", "METADATASERVER_STATUS">>
IsPrefix(s, t) == Len(s) <= Len(t) /\ \A i \in 1..Len(s) : s[i] = t[i]

\* C1: once the become-master response carries a non-OK status, the status
\* query is never sent: the only requests on the connection are the
\* registration and the become-master request, and run has left by exit(1).
C1_NoStatusQueryAfterRejection ==
    BecomeMasterRejected =>
        /\ RequestTypes = <<"REGISTER", "BECOME_MASTER">>
        /\ pc = "exited"
        /\ exitCode = 1

\* C2: run ends in success only if authentication returned OK, the
\* become-master response carried OK and the status response said MASTER.
C2_SuccessNeedsAllThree ==
    (pc = "returned" /\ exitCode = 0) =>
        /\ AuthOK
        /\ BecomeMasterOK
        /\ StatusAnswered
        /\ response.status = LIZ_METADATASERVER_STATUS_MASTER

\* C3: authentication OK, become-master OK and a status response whose role
\* is not MASTER: run has left by exit(1), the last line on the error stream
\* is the promotion-failed message, and neither the wrong-password line nor a
\* diagnostic of a rejected command was written.
C3_VerificationMismatch ==
    (AuthOK /\ BecomeMasterOK /\ StatusAnswered
            /\ response.status # LIZ_METADATASERVER_STATUS_MASTER) =>
        /\ pc = "exited"
        /\ exitCode = 1
        /\ outcome = "VERIFY_MISMATCH"
        /\ cerr # <<>>
        /\ cerr[Len(cerr)] = PromotionFailed
        /\ ~Written(WrongPassword)
        /\ \A s \in StatusCodes \ {STATUS_OK} : ~Written(mfsstrerr(s))

C3_Witness ==
    /\ pc = "exited"
    /\ outcome = "VERIFY_MISMATCH"
    /\ AuthOK /\ BecomeMasterOK
    /\ response.status > LIZ_METADATASERVER_STATUS_MASTER

\* C4 as stated: authentication OK, become-master OK and role MASTER: run
\* returns with exit code 0 and the error stream is empty.
C4_SuccessSilent ==
    (AuthOK /\ BecomeMasterOK /\ StatusAnswered
            /\ response.status = LIZ_METADATASERVER_STATUS_MASTER) =>
        /\ pc = "returned"
        /\ exitCode = 0
        /\ cerr = <<>>

\* C4 amended: authentication OK, become-master OK and role MASTER: run
\* returns with exit code 0 and the error stream holds exactly one line, the
\* text of STATUS_OK written after the become-master exchange.
C4_SuccessWritesStatusLine ==
    (AuthOK /\ BecomeMasterOK /\ StatusAnswered
            /\ response.status = LIZ_METADATASERVER_STATUS_MASTER) =>
        /\ pc = "returned"
        /\ exitCode = 0
        /\ outcome = "CONFIRMED"
        /\ cerr = <<mfsstrerr(STATUS_OK)>>

C4_Witness ==
    /\ pc = "returned"
    /\ AuthOK /\ BecomeMasterOK
    /\ response.status = LIZ_METADATASERVER_STATUS_MASTER
    /\ Len(cerr) = 1

\* C5: a non-OK status from register_master_connection ends run at once by
\* exit(1) with the single line "Wrong password", the registration being the
\* only request ever sent; and the become-master request and the status
\* query are on the connection only after authentication returned OK.
C5_AuthFailureStopsEverything ==
    /\ (AuthReturned /\ authResult.status # STATUS_OK) =>
            /\ pc = "exited"
            /\ exitCode = 1
            /\ outcome = "AUTH_FAILED"
            /\ cerr = <<WrongPassword>>
            /\ RequestTypes = <<"REGISTER">>
    /\ (Sent("BECOME_MASTER") \/ Sent("METADATASERVER_STATUS")) => AuthOK

C5_Witness ==
    /\ pc = "exited"
    /\ AuthReturned
    /\ authResult.status > 1
    /\ cerr = <<WrongPassword>>
    /\ Len(sent) = 1

\* C6: when the become-master response carries a non-OK status, the line
\* written to the error stream is the text of that status, and a finished
\* run has exit code 1.
C6_RejectionReasonSurfaced ==
    BecomeMasterRejected =>
        /\ cerr # <<>>
        /\ Written(mfsstrerr(becomeMasterResponse.status))
        /\ ~Written(mfsstrerr(STATUS_OK))
        /\ (pc \in {"returned", "exited"} => exitCode = 1)

\* C7 as stated: every status query on the connection carries request
\* identifier 1, and run ends in success only when the identifier echoed in
\* the status response equals the identifier sent.
C7_SuccessNeedsMatchingId ==
    /\ \A i \in 1..Len(sent) :
          sent[i].type = "METADATASERVER_STATUS" => sent[i].messageId = 1
    /\ outcome = "CONFIRMED" =>
          \E i \in 1..Len(sent) :
              /\ sent[i].type = "METADATASERVER_STATUS"
              /\ response.messageId = sent[i].messageId

\* C7 amended: every status query on the connection carries request
\* identifier 1; the identifier echoed in the response is read into
\* messageId and compared with nothing: once the status response is in, run
\* ends in success exactly when the reported role is MASTER, whatever
\* identifier the response echoes.
C7_IdSentButNotCompared ==
    /\ \A i \in 1..Len(sent) :
          sent[i].type = "METADATASERVER_STATUS" => sent[i].messageId = 1
    /\ StatusAnswered =>
          /\ messageId = response.messageId
          /\ (outcome = "CONFIRMED") <=>
                 (response.status = LIZ_METADATASERVER_STATUS_MASTER)

C7_Witness ==
    /\ outcome = "CONFIRMED"
    /\ pc = "returned"
    /\ Sent("METADATASERVER_STATUS")
    /\ messageId # sent[Len(sent)].messageId

\* C8 as stated: no terminal state of run has an open connection.
C8_ClosedInEveryTerminalState ==
    Terminal => connection # "open"

\* C8 amended: the connection is closed when run returns (success); on the
\* three paths that leave through exit(1) the destructor of the connection
\* is not run and the connection is still open when the process ends.
C8_ClosedOnReturnOpenOnExit ==
    /\ pc = "returned" => connection = "closed"
    /\ pc = "exited" => connection = "open"

C8_Witness ==
    /\ pc = "exited"
    /\ outcome = "VERIFY_MISMATCH"
    /\ connection = "open"

\* C9: a non-OK authentication result caused by a rejected credential writes
\* "Wrong password"; one caused by a connection or transport failure never
\* does.
C9_TransportFailureNotWrongPassword ==
    /\ (AuthReturned /\ authResult.cause = "rejected") => Written(WrongPassword)
    /\ (AuthReturned /\ authResult.cause = "transport") => ~Written(WrongPassword)

Count(t) == Cardinality({i \in 1..Len(sent) : sent[i].type = t})

\* C11: each of the three requests is sent at most once, and after a failure
\* (a non-OK authentication status, a non-OK become-master status, a role
\* other than MASTER, a transport failure) nothing more is sent on the
\* connection.
C11_NoRetriesNothingAfterFailure ==
    /\ \A i \in 1..Len(Order) : Count(Order[i]) <= 1
    /\ (AuthReturned /\ authResult.status # STATUS_OK) => Len(sent) = 1
    /\ BecomeMasterRejected => Len(sent) = 2
    /\ (StatusAnswered /\ response.status # LIZ_METADATASERVER_STATUS_MASTER) =>
          Len(sent) = 3 /\ ~ENABLED Next
    /\ outcome = "TRANSPORT_FAILED" => ~ENABLED Next

\* C12: when the thread keeps running and every exchange ends with a
\* response or a transport failure, run reaches a terminal state: it does not
\* stay for ever in authentication, promotion or verification.
C12_EventuallyTerminal == <>(pc \in {"returned", "exited", "thrown"})

C12_Witness ==
    /\ Terminal
    /\ Len(sent) = 3
    /\ StatusAnswered
    /\ ~ENABLED Next

\* C13: get_password is called at most once; in a run with two arguments it
\* has been called exactly once as soon as line 34 is passed, so before the
\* connection exists and before anything is sent, and the count is still one
\* in every terminal state, whichever way run was left.
C13_PasswordReadOnce ==
    /\ passwordReads <= 1
    /\ (argc = ExpectedArguments /\ pc \notin {"check_args", "get_password"}) =>
          passwordReads = 1
    /\ pc \in {"check_args", "get_password"} =>
          passwordReads = 0 /\ connection = "none" /\ sent = <<>>
    /\ (connection # "none" \/ sent # <<>>) => passwordReads = 1
    /\ (Terminal /\ argc = ExpectedArguments) => passwordReads = 1

C13_Witness ==
    /\ pc = "exited"
    /\ outcome = "AUTH_FAILED"
    /\ argc = ExpectedArguments
    /\ passwordReads = 1
    /\ password # remoteSecret

\* C14: with a number of arguments other than 2, run ends by
\* WrongUsageException at its first step: the password is never asked, no
\* connection is created, nothing is sent and nothing is written.
C14_WrongUsageNoSideEffects ==
    argc # ExpectedArguments =>
        /\ pc \in {"check_args", "thrown"}
        /\ pc = "thrown" => outcome = "WRONG_USAGE"
        /\ passwordReads = 0
        /\ password = 0
        /\ connection = "none"
        /\ sent = <<>>
        /\ inFlight = {}
        /\ cerr = <<>>
        /\ exitCode = -1

C14_Witness ==
    /\ pc = "thrown"
    /\ outcome = "WRONG_USAGE"
    /\ argc > ExpectedArguments
    /\ passwordReads = 0

\* C15: once the status response is in, the terminal outcome, the exit code
\* and the lines on the error stream are determined by the authentication
\* status and the reported role alone; the metadata version of the response
\* takes no part, so runs that differ only in it end alike.
C15_OutcomeIgnoresMetadataVersion ==
    StatusAnswered =>
        LET master == response.status = LIZ_METADATASERVER_STATUS_MASTER
            line == mfsstrerr(authResult.status)
        IN  /\ metadataVersion = response.metadataVersion
            /\ pc = (IF master THEN "returned" ELSE "exited")
            /\ outcome = (IF master THEN "CONFIRMED" ELSE "VERIFY_MISMATCH")
            /\ exitCode = (IF master THEN 0 ELSE 1)
            /\ cerr = (IF master THEN <<line>> ELSE <<line, PromotionFailed>>)

C15_Witness ==
    /\ StatusAnswered
    /\ outcome = "CONFIRMED"
    /\ metadataVersion = MaxVersion
    /\ metadataVersion # 0

====
